---- MODULE Spec2Model ----
(***************************************************************************)
(* Meteor atmospheric entry (MandoBug/shootingstars): the driver loop of   *)
(* main.py (run_simulation / app loop), the RK4 integrator of physics.py,  *)
(* the atmosphere of atmosphere.py, the body of meteor.py and the          *)
(* fragmentation of fragmentation.py.                                      *)
(*                                                                         *)
(* Numbers.  The program computes in IEEE doubles; this model computes in  *)
(* fixed point on integers:                                                *)
(*   - a PhysicsEngine / Atmosphere pair carries its length unit           *)
(*     (per_m units per metre): positions in units, velocities in units/s, *)
(*     accelerations in units/s^2; time steps in milliseconds;             *)
(*   - radius in micrometres, area in 1e-9 m^2, air density in 1e-6 kg/m^3;*)
(*   - exp, sqrt and the cube root are integer approximations (floor).     *)
(* Meteor.update_ablation, Meteor._recompute_area and the density          *)
(* attribute are called by main.py and fragmentation.py but are not in     *)
(* meteor.py as shipped; they are modelled from the specification (4.4).   *)
(* Their two configuration values (material density, ablation             *)
(* coefficient; specification section 6) are not the values of            *)
(* constants.py (3000 kg/m^3 and 3.5e-9, which no shipped code reads):    *)
(* they are chosen so that entry, fragmentation, burn-up and impact all   *)
(* occur within a few hundred sub-steps: a body far denser than stone,    *)
(* which drag hardly slows.                                               *)
(***************************************************************************)
EXTENDS Integers, Sequences, FiniteSets, TLC

VARIABLES
    mode,           \* "config" (config_screen), "run" (run_simulation), "quit"
    run,            \* number of run_simulation calls started so far
    meteors,        \* run_simulation: list of bodies, meteors[1] is main
    paused,         \* run_simulation: paused
    sim_time,       \* run_simulation: sim_time, in milliseconds
    fragment_done,  \* run_simulation: fragment_done latch
    rng,            \* main.py module-level rng (state of the generator)
    last_rk4,       \* trace of the last rk4_step call
    calls,          \* per body: how often the loop visited, integrated, skipped
                    \* and fragmented it, and its mass around the last ablation
    start,          \* arguments of the run_simulation call in progress, and
                    \* the state of the generator when it was made
    harness         \* state of the stand-alone test harnesses (__main__ blocks)

vars == <<mode, run, meteors, paused, sim_time, fragment_done, rng,
          last_rk4, calls, start, harness>>

simvars == <<mode, run, meteors, paused, sim_time, fragment_done, rng,
             last_rk4, calls, start>>

---------------------------------------------------------------------------
(* Bounds of the exploration *)

MaxTicks == 180         \* sub-steps explored per run
MaxRuns == 2            \* run_simulation calls explored
MaxFFSteps == 1000      \* rk4 steps of the free-fall test (t = 10 s)
MaxTrailCalls == 104    \* update_trail calls of the trail test
MaxEntryTicks == 6000    \* sub-steps explored in the end-to-end scenario

---------------------------------------------------------------------------
(* Program constants, in model units *)

DT_MS == 10                     \* DT = 0.01 s
TIME_SCALE == 1
FPS == 60
MAX_SUBSTEPS == 10
G_CM == 981                     \* g = 9.81 m/s^2, in cm/s^2
RHO_0 == 1225000                \* 1.225 kg/m^3 in 1e-6 kg/m^3
H_SCALE == 8500                 \* metres
CD_NUM == 4                     \* DRAG_COEFFICIENT = 0.8 = 4/5
CD_DEN == 5
DEFAULT_METEOR_MASS == 10000    \* 0.01 kg in 1e-6 kg
MAX_TRAIL_LENGTH == 100
INITIAL_ALTITUDE == 120000      \* metres
BURNUP_MIN_MASS == 5            \* 5e-6 kg in 1e-6 kg
BURNING_INTENSITY_THRESHOLD == 650   \* 0.65 in 1/1000
FRAG_ALTITUDE == 45000          \* metres
FRAG_INTENSITY == 700           \* 0.70 in 1/1000
FRAG_N == 5
KEEP_PCT == 55                  \* keep_frac = 0.55
RADIUS_FLOOR == 100             \* 1e-4 m in micrometres
SPREAD_DEG == 10
JITTER_PM == 60                 \* 0.06 in 1/1000
INTENSITY_K == 22               \* k = 2.2e-7: x = 0.22 * heating / 1e6
SPHERE_K == 238732415           \* 3 / (4 pi), times 1e9
MATERIAL_DENSITY == 300000      \* material density of a body, in 1000 kg/m^3
ABLATION_DIV == 1000000         \* 1 / ablation coefficient (k_abl = 1e-9)
RNG_SEED == 7
MAX_METEORS_TOTAL == 25         \* parent + fragments cap (read by no code)
RNG_MOD == 65537
PI_NUM == 355
PI_DEN == 113

---------------------------------------------------------------------------
(* Integer arithmetic helpers *)

Abs(x) == IF x < 0 THEN -x ELSE x
Max(a, b) == IF a >= b THEN a ELSE b
Min(a, b) == IF a <= b THEN a ELSE b

\* floor(a * b / c) without overflowing 32 bits (c > 0, |b| * c small enough)
MulDiv(a, b, c) == (a \div c) * b + ((a % c) * b) \div c

RECURSIVE RootSearch(_, _, _, _)
\* largest r in lo..hi with r^e <= n  (e = 2 or 3)
RootSearch(n, e, lo, hi) ==
    IF lo >= hi THEN lo
    ELSE LET mid == (lo + hi + 1) \div 2
             p == IF e = 2 THEN mid * mid ELSE mid * mid * mid
         IN IF p <= n THEN RootSearch(n, e, mid, hi)
                      ELSE RootSearch(n, e, lo, mid - 1)

ISqrt(n) == RootSearch(n, 2, 0, 46340)
ICbrt(n) == RootSearch(n, 3, 0, 1290)

RECURSIVE Pow2(_)
Pow2(q) == IF q = 0 THEN 1 ELSE 2 * Pow2(q - 1)

RECURSIVE SumSeq(_)
SumSeq(s) == IF s = <<>> THEN 0 ELSE Head(s) + SumSeq(Tail(s))

VAdd(a, b) == [i \in DOMAIN a |-> a[i] + b[i]]
VScale(a, num, den) == [i \in DOMAIN a |-> MulDiv(a[i], num, den)]

\* the element of a one-element set.  Only({F(x) : x \in {e}}) is F(e), with
\* e evaluated once and x bound to its value.
Only(S) == CHOOSE x \in S : TRUE

\* sqrt of the sum of squares of v / s, times s
norm_scaled(v, s) ==
    s * ISqrt((v[1] \div s) * (v[1] \div s) + (v[2] \div s) * (v[2] \div s)
              + (v[3] \div s) * (v[3] \div s))

\* np.linalg.norm: the components are scaled down when a square would not fit
norm(v) == norm_scaled(v, Max(Abs(v[1]), Max(Abs(v[2]), Abs(v[3]))) \div 26000 + 1)

---------------------------------------------------------------------------
(* meteor.py *)

\* self.area = np.pi * self.radius**2   (radius in um, area in 1e-9 m^2)
AreaOf(radius) ==
    IF radius <= 40000
    THEN (((radius * radius) \div 1000) * PI_NUM) \div PI_DEN
    ELSE ((((radius \div 100) * (radius \div 100)) \div PI_DEN) * PI_NUM) * 10

\* Meteor.__init__: arrays are fresh copies, alive, empty trail
Meteor(position, velocity, mass, radius, density) ==
    [pos |-> position, vel |-> velocity, mass |-> mass, radius |-> radius,
     area |-> AreaOf(radius), density |-> density, alive |-> TRUE,
     trail |-> <<>>, nan |-> FALSE]

get_altitude(m) == m.pos[2]
get_speed(m) == norm(m.vel)

\* A trail entry is an array object: either a copy of the position at the time
\* of the call (alias = FALSE) or the position array itself (alias = TRUE),
\* which changes whenever the position is changed in place.
TrailPoints(m) == [i \in DOMAIN m.trail |-> m.trail[i].p]

\* variant: the position array itself is appended, not a copy
update_trail_by_reference(m, max_length) ==
    LET appended == Append(m.trail, [alias |-> TRUE, p |-> m.pos])
    IN [m EXCEPT !.trail = IF Len(appended) > max_length THEN Tail(appended)
                           ELSE appended]

\* Meteor.update_trail: append a copy of pos, then pop(0) if too long
update_trail(m, max_length) ==
    LET appended == Append(m.trail, [alias |-> FALSE, p |-> m.pos])
    IN [m EXCEPT !.trail = IF Len(appended) > max_length THEN Tail(appended)
                           ELSE appended]

\* meteor.pos += delta (numpy in-place add): the array object is changed, and
\* with it every trail entry that is the same object
pos_iadd(m, delta) ==
    LET p == VAdd(m.pos, delta)
    IN [m EXCEPT !.pos = p,
                 !.trail = [i \in DOMAIN @ |->
                              IF @[i].alias THEN [@[i] EXCEPT !.p = p] ELSE @[i]]]

\* radius of a sphere of the given mass and density, floored at 1e-4 m:
\* max(1e-4, (3.0 * mass / (4.0 * math.pi * density)) ** (1.0/3.0))
radius_from_mass(mass, dens) ==
    Max(RADIUS_FLOOR, ICbrt(mass * (SPHERE_K \div dens)))

\* variant: the area is left as it was
recompute_area_skipped(m) == m

\* Meteor._recompute_area
recompute_area(m) == [m EXCEPT !.area = AreaOf(m.radius)]

---------------------------------------------------------------------------
(* vfx.py *)

\* MeteorVFX.heating_proxy: rho * speed^3, in 1e6 kg/s^3
\* (speed in units of 100 m/s, its cube in (km/s)^3)
heating_proxy(rho, speed, per_m) ==
    LET vh == speed \div (per_m * 100)
    IN MulDiv(rho, (vh * vh * vh) \div 1000, 1000)

\* MeteorVFX.intensity_from_heating: x / (1 + x) with x = heating * k,
\* clamped to 0..1; result in 1/1000.  floor(1000 x / (1 + x)) is
\* 1000 - ceil(100000 / (100 + 100 x)).
intensity_from_heating(heating) ==
    LET x100 == INTENSITY_K * Min(heating, 90000000)
        i == 1000 - ((100000 + 100 + x100 - 1) \div (100 + x100))
    IN Max(0, Min(1000, i))

---------------------------------------------------------------------------
(* Meteor.update_ablation, from the specification (4.4) *)

\* dm = k_abl * A * rho_air * |v|^3 * dt, clamped to be non-negative
mass_loss(m, rho_air, dt, per_m) ==
    LET Q == heating_proxy(rho_air, get_speed(m), per_m)
    IN Max(0, MulDiv(MulDiv(Q, m.area, ABLATION_DIV), dt, 1000))

\* variant: no burn-up rule, the mass is only clamped at 0
update_ablation_clamped(m, rho_air, dt, per_m) ==
    IF ~m.alive \/ (~m.nan /\ get_speed(m) < per_m) THEN m
    ELSE LET mass == Max(0, m.mass - mass_loss(m, rho_air, dt, per_m))
         IN recompute_area([m EXCEPT !.mass = mass,
                                     !.radius = radius_from_mass(mass, m.density)])

\* no-op if the body is not alive or |v| < 1 m/s; mass = max(0, mass - dm);
\* at or below the threshold: mass = 0, alive = false, radius kept;
\* otherwise radius from the new mass at constant density, then area.
\* A body without finite velocity loses no mass here.
update_ablation(m, rho_air, dt, per_m) ==
    IF ~m.alive \/ (~m.nan /\ get_speed(m) < per_m) THEN m
    ELSE LET dm == IF m.nan THEN 0 ELSE mass_loss(m, rho_air, dt, per_m)
             mass == Max(0, m.mass - dm)
         IN IF mass <= BURNUP_MIN_MASS
            THEN [m EXCEPT !.mass = 0, !.alive = FALSE]
            ELSE recompute_area([m EXCEPT !.mass = mass,
                                          !.radius = radius_from_mass(mass, m.density)])

---------------------------------------------------------------------------
(* atmosphere.py *)

\* Atmosphere(): rho_0 and H, with the length unit of the altitudes it is given
Atmosphere(per_m) == [rho_0 |-> RHO_0, H |-> H_SCALE, per_m |-> per_m]

\* Atmosphere.density: rho_0 below sea level, rho_0 * exp(-altitude / H) above.
\* exp(-a/H) = 2^(-a/(H ln 2)): halved once per H*ln2, linear in between.
density(self, altitude) ==
    IF altitude < 0 THEN self.rho_0
    ELSE LET HL == MulDiv(self.H * self.per_m, 693, 1000)
             q == altitude \div HL
             r == altitude % HL
             gr == Max(1, HL \div 512)
         IN IF q > 30 THEN 0
            ELSE ((self.rho_0 \div Pow2(q)) * ((2 * HL - r) \div gr))
                     \div ((2 * HL) \div gr)

\* drag_magnitude = 0.5 * rho * speed**2 * DRAG_COEFFICIENT * meteor.area,
\* in 1e-6 N  (vd: speed in units of 10 m/s)
drag_magnitude(rho, area, vd) ==
    (MulDiv(MulDiv(MulDiv(rho, area, 1000), vd, 100), vd, 100) * CD_NUM)
        \div (2 * CD_DEN)

\* drag_magnitude * (v / speed): the force along the velocity, not against it
drag_with_velocity(v, speed, magnitude, s) ==
    [i \in 1..3 |-> MulDiv(magnitude, v[i] \div s, speed \div s)]

\* F_drag = -drag_magnitude * (v / speed); v and speed divided by s so that
\* the products fit
drag_along(v, speed, magnitude, s) ==
    [i \in 1..3 |-> -MulDiv(magnitude, v[i] \div s, speed \div s)]

\* Atmosphere.drag_force past the density and speed look-ups: zero below
\* 1e-6 m/s
drag_at_speed(self, meteor, rho, speed) ==
    IF speed = 0 THEN <<0, 0, 0>>
    ELSE drag_along(meteor.vel, speed,
                    drag_magnitude(rho, meteor.area, speed \div (self.per_m * 10)),
                    speed \div 32768 + 1)

\* Atmosphere.drag_force(meteor, altitude)
drag_force(self, meteor, altitude) ==
    drag_at_speed(self, meteor, density(self, altitude), get_speed(meteor))

---------------------------------------------------------------------------
(* physics.py *)

\* PhysicsEngine(use_simple_gravity=True) with g in its units:
\* gravity force = mass * g_num / g_den, acceleration = F * acc_mul / mass,
\* drag force (1e-6 N) / f_div in the engine's force unit
PhysicsEngine(g_num, g_den, acc_mul, f_div) ==
    [use_simple_gravity |-> TRUE, g_num |-> g_num, g_den |-> g_den,
     acc_mul |-> acc_mul, f_div |-> f_div]

\* PhysicsEngine.gravity_force, constant-g branch (the only one constructed)
gravity_force(self, meteor) == <<0, -MulDiv(meteor.mass, self.g_num, self.g_den), 0>>

\* F_net = F_grav + F_drag
force_sum(self, F_grav, F_drag) ==
    [i \in 1..3 |-> F_grav[i] + (F_drag[i] \div self.f_div)]

\* PhysicsEngine.net_force: altitude = meteor.get_altitude(), F_grav + F_drag.
\* For the temporary meteor of derivative, get_altitude is the bound method of
\* the real meteor: it reads the real meteor's position (field bound_pos).
net_force(self, meteor, atmosphere) ==
    force_sum(self, gravity_force(self, meteor),
              drag_force(atmosphere, meteor, meteor.bound_pos[2]))

\* derivative, lines 99-106: the temporary meteor
temp_meteor(state, meteor) ==
    [pos |-> SubSeq(state, 1, 3), vel |-> SubSeq(state, 4, 6),
     mass |-> meteor.mass, radius |-> meteor.radius, area |-> meteor.area,
     bound_pos |-> meteor.pos]

\* accel = F / meteor.mass  (F / 0 is not finite: see derivative)
acceleration(self, F, mass) ==
    IF mass = 0 THEN <<0, 0, 0>>
    ELSE [i \in 1..3 |-> MulDiv(F[i], self.acc_mul, mass)]

\* variant: the candidate state is written into the meteor itself
derivative_in_place(self, state, meteor, atmosphere) ==
    [k |-> SubSeq(state, 4, 6)
             \o acceleration(self, net_force(self, temp_meteor(state, meteor),
                                              atmosphere), meteor.mass),
     finite |-> (meteor.mass # 0) /\ ~meteor.nan,
     meteor |-> [meteor EXCEPT !.pos = SubSeq(state, 1, 3),
                               !.vel = SubSeq(state, 4, 6)]]

\* PhysicsEngine.derivative: [vel, F / mass] at the candidate state; the real
\* meteor is returned as the call leaves it.  The result is finite unless the
\* mass is 0 or a number of the body is already not finite.
derivative(self, state, meteor, atmosphere) ==
    [k |-> SubSeq(state, 4, 6)
             \o acceleration(self, net_force(self, temp_meteor(state, meteor),
                                              atmosphere), meteor.mass),
     finite |-> (meteor.mass # 0) /\ ~meteor.nan,
     meteor |-> meteor]

\* variant: the four slopes summed with equal weights
rk4_weighted_equal(k1, k2, k3, k4) ==
    [i \in 1..6 |-> k1[i] + k2[i] + k3[i] + k4[i]]

\* (k1 + 2*k2 + 2*k3 + k4), the weighted sum of rk4_step line 157
rk4_weighted(k1, k2, k3, k4) ==
    [i \in 1..6 |-> k1[i] + 2 * k2[i] + 2 * k3[i] + k4[i]]

\* lines 160-161: meteor.pos = new_state[0:3]; meteor.vel = new_state[3:6].
\* pos is bound to a new array: trail entries that were the old array keep
\* its last value.  Without finite slopes the new numbers are NaN.
unpack(meteor, new_state, finite) ==
    [meteor EXCEPT
       !.pos = IF finite THEN SubSeq(new_state, 1, 3) ELSE @,
       !.vel = IF finite THEN SubSeq(new_state, 4, 6) ELSE @,
       !.nan = @ \/ ~finite,
       !.trail = [i \in DOMAIN @ |-> [alias |-> FALSE, p |-> @[i].p]]]

\* lines 157-161, with the intermediate states of the call: pre = the meteor
\* at the call, mid = the meteor after the four derivative evaluations,
\* post = the meteor after the unpack
rk4_update(meteor, state, d1, d2, d3, d4, dt) ==
    [pre |-> meteor,
     mid |-> d4.meteor,
     post |-> unpack(d4.meteor,
                     VAdd(state, VScale(rk4_weighted(d1.k, d2.k, d3.k, d4.k), dt, 6000)),
                     d1.finite /\ d2.finite /\ d3.finite /\ d4.finite)]

\* line 154: k4 = derivative(state + k3 * dt, ...)
rk4_k4(self, meteor, atmosphere, dt, state, d1, d2, d3) ==
    Only({rk4_update(meteor, state, d1, d2, d3, d4, dt) :
            d4 \in {derivative(self, VAdd(state, VScale(d3.k, dt, 1000)),
                               d3.meteor, atmosphere)}})

\* line 151: k3 = derivative(state + k2 * dt/2, ...)
rk4_k3(self, meteor, atmosphere, dt, state, d1, d2) ==
    Only({rk4_k4(self, meteor, atmosphere, dt, state, d1, d2, d3) :
            d3 \in {derivative(self, VAdd(state, VScale(d2.k, dt, 2000)),
                               d2.meteor, atmosphere)}})

\* line 148: k2 = derivative(state + k1 * dt/2, ...)
rk4_k2(self, meteor, atmosphere, dt, state, d1) ==
    Only({rk4_k3(self, meteor, atmosphere, dt, state, d1, d2) :
            d2 \in {derivative(self, VAdd(state, VScale(d1.k, dt, 2000)),
                               d1.meteor, atmosphere)}})

\* PhysicsEngine.rk4_step with its intermediate states; lines 140-145:
\* state = concatenate([pos, vel]); k1 = derivative(state, ...)
rk4_trace(self, meteor, atmosphere, dt) ==
    Only({rk4_k2(self, meteor, atmosphere, dt, meteor.pos \o meteor.vel, d1) :
            d1 \in {derivative(self, meteor.pos \o meteor.vel, meteor, atmosphere)}})

rk4_step(self, meteor, atmosphere, dt) == rk4_trace(self, meteor, atmosphere, dt).post

---------------------------------------------------------------------------
(* random.Random and fragmentation.py *)

\* The generator: a state that every draw advances; random() is
\* state / RNG_MOD, in [0, 1).  (A small congruential generator stands for
\* the Mersenne twister of random.Random.)
rng_next(state) == (state * 75 + 74) % RNG_MOD

RECURSIVE rng_draws(_, _)
\* the next k values of random(), times RNG_MOD
rng_draws(state, k) ==
    IF k = 0 THEN <<>>
    ELSE <<rng_next(state)>> \o rng_draws(rng_next(state), k - 1)

RECURSIVE rng_advance(_, _)
rng_advance(state, k) == IF k = 0 THEN state ELSE rng_advance(rng_next(state), k - 1)

\* cos and sin (times 10000) of the angles -10, -5, 0, 5, 10 degrees
ROTATIONS == <<[c |-> 9848, s |-> -1736], [c |-> 9962, s |-> -872],
               [c |-> 10000, s |-> 0],
               [c |-> 9962, s |-> 872], [c |-> 9848, s |-> 1736]>>

\* rng.uniform(-spread, spread), to the nearest of the five angles
uniform_angle(u) == ROTATIONS[(u * Len(ROTATIONS)) \div RNG_MOD + 1]

\* rng.uniform(-0.06, 0.06), in 1/1000
uniform_jitter(u) == (2 * JITTER_PM * u) \div RNG_MOD - JITTER_PM

\* lines 29-41: (cos(ang) * sp, sin(ang) * sp, 0) with ang = base_ang + a and
\* sp = sp0 * (1 + j): the parent's (vx0, vy0) rotated by a and scaled
child_velocity(vel, a, j) ==
    LET rx == MulDiv(vel[1], a.c, 10000) - MulDiv(vel[2], a.s, 10000)
        ry == MulDiv(vel[1], a.s, 10000) + MulDiv(vel[2], a.c, 10000)
    IN <<rx + MulDiv(rx, j, 1000), ry + MulDiv(ry, j, 1000), 0>>

\* variant: the kept mass divided, not multiplied, by keep_frac
parent_keep_divided(mass) == (mass * 100) \div KEEP_PCT

\* line 19: parent.mass *= keep_frac
parent_keep(mass) == (mass * KEEP_PCT) \div 100

\* line 18: child_total = parent.mass * (1.0 - keep_frac)
child_pool(mass) == (mass * (100 - KEEP_PCT)) \div 100

\* lines 25-27: weights / weights.sum() * child_total; a positive weight gives
\* a positive mass
child_mass(w, total, child_total) ==
    IF w = 0 THEN 0 ELSE Max(1, MulDiv(w, child_total, total))

\* variant: the child is given the parent's position array itself
child_pos_by_reference(parent) == TRUE

\* lines 47 and meteor.py 34: position=parent.pos.copy(), copied once more by
\* np.array(position, dtype=float): is the child's position array the parent's?
child_pos_shared(parent) == FALSE

\* variant: the guard of lines 14-15 left out
always_split(parent) == FALSE

\* line 14: if parent.mass <= 0 (return [])
nothing_to_split(parent) == parent.mass <= 0

\* fragment_simple(parent, rng, n).  draws: the values rng yields (n weights,
\* then an angle and a jitter per child).  Result: the parent as the call
\* leaves it, the returned children, and the number of values drawn.
\* With weights.sum() = 0 the division is 0/0: every child's mass is NaN
\* (nan = TRUE), and max(1e-4, nan) is the radius floor.
fragment_simple(parent, draws, n) ==
    IF nothing_to_split(parent) THEN [parent |-> parent, frags |-> <<>>, drawn |-> 0]
    ELSE LET child_total == child_pool(parent.mass)
             kept == parent_keep(parent.mass)
             p1 == recompute_area([parent EXCEPT
                        !.mass = kept,
                        !.radius = radius_from_mass(kept, parent.density)])
             weights == SubSeq(draws, 1, n)
             total == SumSeq(weights)
             child(i) ==
                 LET m == IF total = 0 THEN 0
                          ELSE child_mass(weights[i], total, child_total)
                     a == uniform_angle(draws[n + 2 * i - 1])
                     j == uniform_jitter(draws[n + 2 * i])
                     r == IF total = 0 THEN RADIUS_FLOOR
                          ELSE radius_from_mass(m, parent.density)
                 IN [Meteor(parent.pos, child_velocity(parent.vel, a, j), m, r,
                            parent.density)
                     EXCEPT !.nan = (total = 0) \/ parent.nan]
         IN [parent |-> p1, frags |-> [i \in 1..n |-> child(i)], drawn |-> 3 * n]

---------------------------------------------------------------------------
(* main.py: status_for, run_simulation and the app loop *)

SIM_PER_M == 100                \* length unit of the simulation: 1 cm

\* module level, lines 35-36; masses in 1e-6 kg, forces in 1e-6 N
atmosphere == Atmosphere(SIM_PER_M)
physics == PhysicsEngine(G_CM, 100, 100, 1)

\* atmosphere.density(max(0.0, m.get_altitude())); max(0.0, nan) is 0.0
density_at(m) == density(atmosphere, IF m.nan THEN 0 ELSE Max(0, get_altitude(m)))

\* vfx.intensity_from_heating(vfx.heating_proxy(rho, m.get_speed()))
intensity_of(m) ==
    intensity_from_heating(heating_proxy(density_at(m), get_speed(m), SIM_PER_M))

\* status_for(m, intensity), lines 136-144
status_for(m, intensity) ==
    IF ~m.nan /\ get_altitude(m) <= 0 THEN "IMPACT"
    ELSE IF ~m.alive THEN "BURNED UP"
    ELSE IF intensity >= BURNING_INTENSITY_THRESHOLD THEN "BURNING"
    ELSE "FLYING"

\* variant: a frame makes no sub-step at all
substeps_none(frame_ms, dt_phys) == 0

\* variant: the cap of line 216 left out
substeps_uncapped(frame_ms, dt_phys) == Max(1, frame_ms \div dt_phys)

\* lines 215-216: steps = min(max(1, int(frame_dt / dt_phys)), 10)
substeps(frame_ms, dt_phys) == Min(Max(1, frame_ms \div dt_phys), MAX_SUBSTEPS)

\* variant: dead bodies are not skipped
never_skipped(m) == FALSE

\* line 222: if not m.alive: continue
is_skipped(m) == ~m.alive

\* line 224: m.get_altitude() <= 0
at_ground(m) == ~m.nan /\ get_altitude(m) <= 0

NoRk4 == [called |-> FALSE]
NewCalls == [visits |-> 0, rk4 |-> 0, skipped |-> 0, frag |-> 0, m0 |-> 0, m1 |-> 0,
             rose |-> 0, massless |-> 0, falive |-> FALSE, falt |-> 0, born |-> 0,
             fstep |-> 0, mass0 |-> 0, vel0 |-> <<0, 0, 0>>]

\* an rk4_step that did not leave the body strictly lower and not moving up
not_lower(tr) ==
    tr.post.nan \/ tr.post.pos[2] >= tr.pre.pos[2] \/ tr.post.vel[2] > 0

\* lines 230-231: update_ablation, update_trail; c counts the calls made on
\* the body, keeps its mass before (m0) and after (m1) the last ablation and
\* counts the rk4 steps that did not lower it (rose) and those it entered
\* with a mass that is not positive (massless)
after_ablation(tr, ablated, c, dt) ==
    [m |-> update_trail(ablated, MAX_TRAIL_LENGTH),
     c |-> [c EXCEPT !.visits = @ + 1, !.rk4 = @ + 1, !.m0 = tr.post.mass,
                     !.m1 = ablated.mass,
                     !.rose = IF not_lower(tr) THEN @ + 1 ELSE @,
                     !.massless = IF tr.pre.mass <= 0 THEN @ + 1 ELSE @],
     rk4 |-> [called |-> TRUE, dt |-> dt, pre |-> tr.pre, mid |-> tr.mid,
              post |-> tr.post]]

\* lines 229-230: rho = atmosphere.density(...); m.update_ablation(rho, dt)
after_rk4(tr, c, dt) ==
    Only({after_ablation(tr, ablated, c, dt) :
            ablated \in {update_ablation(tr.post, density_at(tr.post), dt, SIM_PER_M)}})

\* variant: the ablation pass comes first, the integration after it
body_step_ablate_first(m, c, dt) ==
    IF is_skipped(m)
    THEN [m |-> m, c |-> [c EXCEPT !.visits = @ + 1, !.skipped = @ + 1],
          rk4 |-> NoRk4]
    ELSE IF at_ground(m)
    THEN [m |-> [m EXCEPT !.alive = FALSE], c |-> [c EXCEPT !.visits = @ + 1],
          rk4 |-> NoRk4]
    ELSE Only({after_ablation(tr, tr.post, c, dt) :
                 tr \in {rk4_trace(physics,
                                   update_ablation(m, density_at(m), dt, SIM_PER_M),
                                   atmosphere, dt)}})

\* lines 222-231, the body of `for m in meteors`
body_step(m, c, dt) ==
    IF is_skipped(m)
    THEN [m |-> m, c |-> [c EXCEPT !.visits = @ + 1, !.skipped = @ + 1],
          rk4 |-> NoRk4]
    ELSE IF at_ground(m)
    THEN [m |-> [m EXCEPT !.alive = FALSE], c |-> [c EXCEPT !.visits = @ + 1],
          rk4 |-> NoRk4]
    ELSE Only({after_rk4(tr, c, dt) : tr \in {rk4_trace(physics, m, atmosphere, dt)}})

\* the bodies b with the outcome r of the step of body i
with_body(b, i, r) ==
    [meteors |-> [b.meteors EXCEPT ![i] = r.m],
     calls |-> [b.calls EXCEPT ![i] = r.c],
     last_rk4 |-> IF r.rk4.called THEN r.rk4 ELSE b.last_rk4]

RECURSIVE step_bodies(_, _, _)
\* lines 221-231: for m in meteors, from index i on
step_bodies(b, i, dt) ==
    IF i > Len(b.meteors) THEN b
    ELSE Only({step_bodies(b1, i + 1, dt) :
                 b1 \in {with_body(b, i, body_step(b.meteors[i], b.calls[i], dt))}})

\* variant: the latch is not consulted
should_fragment_unlatched(done, main) == main.alive

\* line 234: (not fragment_done) and main.alive
should_fragment(done, main) == (~done) /\ main.alive

\* variant: the altitude threshold is the ground instead of 45 km
frag_trigger_at_ground(main) ==
    /\ ~main.nan
    /\ get_altitude(main) <= 0
    /\ intensity_of(main) > FRAG_INTENSITY

\* line 238: main.get_altitude() < 45000 and intensity > 0.70
frag_trigger(main) ==
    /\ ~main.nan
    /\ get_altitude(main) < FRAG_ALTITUDE * SIM_PER_M
    /\ intensity_of(main) > FRAG_INTENSITY

\* lines 239-240: fragment_done = True; meteors.extend(fragment_simple(...));
\* the calls keep whether the main body was alive (falive) and how high it
\* was (falt) when fragment_simple was called on it and in which sub-step of
\* the run that was (fstep), and for each child the altitude (born), the
\* mass (mass0) and the velocity (vel0) it was created with
with_fragments(st, b, res, dt) ==
    [meteors |-> <<res.parent>> \o Tail(b.meteors) \o res.frags,
     calls |-> <<[b.calls[1] EXCEPT !.frag = @ + 1,
                                    !.falive = b.meteors[1].alive,
                                    !.falt = get_altitude(b.meteors[1]),
                                    !.fstep = b.calls[1].visits]>>
                 \o Tail(b.calls)
                 \o [i \in 1..Len(res.frags) |->
                       [NewCalls EXCEPT !.born = get_altitude(res.frags[i]),
                                        !.mass0 = res.frags[i].mass,
                                        !.vel0 = res.frags[i].vel]],
     last_rk4 |-> b.last_rk4,
     sim_time |-> st.sim_time + dt,
     fragment_done |-> TRUE,
     rng |-> rng_advance(st.rng, res.drawn)]

\* lines 233-240: the fragmentation trigger, after the loop over the bodies
after_bodies(st, b, dt) ==
    IF should_fragment(st.fragment_done, b.meteors[1]) /\ frag_trigger(b.meteors[1])
    THEN Only({with_fragments(st, b, res, dt) :
                 res \in {fragment_simple(b.meteors[1],
                                          rng_draws(st.rng, 3 * FRAG_N), FRAG_N)}})
    ELSE [meteors |-> b.meteors, calls |-> b.calls, last_rk4 |-> b.last_rk4,
          sim_time |-> st.sim_time + dt,
          fragment_done |-> st.fragment_done,
          rng |-> st.rng]

\* lines 219-240: one iteration of `for _ in range(steps)`
sub_step(st, dt) ==
    Only({after_bodies(st, b, dt) :
            b \in {step_bodies([meteors |-> st.meteors, calls |-> st.calls,
                                last_rk4 |-> st.last_rk4], 1, dt)}})

RECURSIVE sub_steps(_, _, _)
\* line 218: for _ in range(steps)
sub_steps(st, steps, dt) ==
    IF steps = 0 THEN st
    ELSE Only({sub_steps(s1, steps - 1, dt) : s1 \in {sub_step(st, dt)}})

\* cos and sin (times 10000) of the entry angles explored
trig(angle_deg) ==
    CASE angle_deg = 5 -> [c |-> 9962, s |-> 872]
      [] angle_deg = 45 -> [c |-> 7071, s |-> 7071]
      [] angle_deg = 60 -> [c |-> 5000, s |-> 8660]
      [] angle_deg = 85 -> [c |-> 872, s |-> 9962]

Speeds == {72}                  \* km/s, config_screen: 11.0 .. 72.0
Angles == {60, 85}              \* degrees, config_screen: 5 .. 85
Radii == {20000}                \* micrometres, config_screen: 0.003 .. 0.25 m
FrameTimes == {16, 25, 120}     \* clock.tick(FPS), milliseconds

NoStart == [called |-> FALSE]

\* lines 177-186: main = Meteor(position, velocity, radius=radius)
\* variant: the entry velocity points up
main_meteor_upward(speed_km_s, angle_deg, radius) ==
    LET speed == speed_km_s * 1000 * SIM_PER_M
        vx == MulDiv(speed, trig(angle_deg).c, 10000)
        vy == MulDiv(speed, trig(angle_deg).s, 10000)
    IN Meteor(<<0, INITIAL_ALTITUDE * SIM_PER_M, 0>>, <<vx, vy, 0>>,
              DEFAULT_METEOR_MASS, radius, MATERIAL_DENSITY)

main_meteor(speed_km_s, angle_deg, radius) ==
    LET speed == speed_km_s * 1000 * SIM_PER_M
        vx == MulDiv(speed, trig(angle_deg).c, 10000)
        vy == -MulDiv(speed, trig(angle_deg).s, 10000)
    IN Meteor(<<0, INITIAL_ALTITUDE * SIM_PER_M, 0>>, <<vx, vy, 0>>,
              DEFAULT_METEOR_MASS, radius, MATERIAL_DENSITY)

\* lines 177-193: run_simulation(speed_km_s, angle_deg, radius) up to the loop
ConfigStart ==
    /\ mode = "config" /\ harness.kind = "none"
    /\ run < MaxRuns
    /\ \E speed_km_s \in Speeds, angle_deg \in Angles, radius \in Radii :
         /\ meteors' = <<main_meteor(speed_km_s, angle_deg, radius)>>
         /\ calls' = <<NewCalls>>
         /\ start' = [called |-> TRUE, speed_km_s |-> speed_km_s,
                      angle_deg |-> angle_deg, radius |-> radius, rng |-> rng]
    /\ mode' = "run"
    /\ run' = run + 1
    /\ paused' = FALSE
    /\ sim_time' = 0
    /\ fragment_done' = FALSE
    /\ last_rk4' = NoRk4
    /\ UNCHANGED <<rng, harness>>

\* variant: the frame time is divided among the sub-steps
dt_phys_of_frame(frame_ms) == frame_ms \div substeps(frame_ms, DT_MS * TIME_SCALE)

\* line 214: dt_phys = DT * TIME_SCALE, whatever frame_dt is
dt_phys_fixed(frame_ms) == DT_MS * TIME_SCALE

\* variant: the physics block runs whether paused or not
physics_always(p) == TRUE

\* line 213: if not paused
physics_runs(p) == ~p

\* lines 196-240: one iteration of `while True` in which the events toggle
\* paused `toggle` times (0 or 1) and no other key is pressed
Frame(frame_ms, toggle) ==
    LET p == IF toggle = 1 THEN ~paused ELSE paused
        dt_phys == dt_phys_fixed(frame_ms)
        steps == substeps(frame_ms, dt_phys)
        st0 == [meteors |-> meteors, calls |-> calls, last_rk4 |-> last_rk4,
                sim_time |-> sim_time, fragment_done |-> fragment_done,
                rng |-> rng]
    IN \E st1 \in {IF physics_runs(p) THEN sub_steps(st0, steps, dt_phys) ELSE st0} :
         /\ paused' = p
         /\ meteors' = st1.meteors
         /\ calls' = st1.calls
         /\ last_rk4' = st1.last_rk4
         /\ sim_time' = st1.sim_time
         /\ fragment_done' = st1.fragment_done
         /\ rng' = st1.rng
         /\ UNCHANGED <<mode, run, start, harness>>

FramePlay ==
    /\ mode = "run" /\ sim_time < MaxTicks * DT_MS
    /\ \E frame_ms \in FrameTimes : Frame(frame_ms, 0)

\* K_SPACE: paused = not paused
FrameSpace ==
    /\ mode = "run" /\ sim_time < MaxTicks * DT_MS
    /\ \E frame_ms \in FrameTimes : Frame(frame_ms, 1)

\* K_r: return to the app loop, which shows config_screen again
FrameRestart ==
    /\ mode = "run"
    /\ mode' = "config"
    /\ meteors' = <<>> /\ calls' = <<>>
    /\ paused' = FALSE /\ sim_time' = 0 /\ fragment_done' = FALSE
    /\ last_rk4' = NoRk4 /\ start' = NoStart
    /\ UNCHANGED <<run, rng, harness>>

\* pygame.QUIT or K_ESCAPE: pygame.quit(); sys.exit().  The process ends and
\* its state with it.
FrameQuit ==
    /\ mode = "run"
    /\ mode' = "quit"
    /\ meteors' = <<>> /\ calls' = <<>>
    /\ paused' = FALSE /\ sim_time' = 0 /\ fragment_done' = FALSE
    /\ last_rk4' = NoRk4 /\ start' = NoStart
    /\ UNCHANGED <<run, rng, harness>>

Init ==
    /\ mode = "config" /\ run = 0 /\ meteors = <<>> /\ paused = FALSE
    /\ sim_time = 0 /\ fragment_done = FALSE /\ rng = RNG_SEED
    /\ last_rk4 = NoRk4 /\ calls = <<>> /\ start = NoStart
    /\ harness = [kind |-> "none"]

Next == ConfigStart \/ FramePlay \/ FrameSpace \/ FrameRestart \/ FrameQuit

Spec == Init /\ [][Next]_vars


---------------------------------------------------------------------------
(* physics.py, __main__: the free-fall test (lines 168-217) *)

FF_PER_M == 100000              \* length unit of the test: 1e-5 m
FF_H0 == 10000                  \* metres
FF_RADIUS == 100000             \* radius=0.1 m in micrometres
FF_MASS == 1                    \* mass=1.0 kg

\* physics = PhysicsEngine(): g = 9.81 m/s^2 = 981000 units/s^2, mass in kg
ff_physics == PhysicsEngine(G_CM * 1000, 1, 1, 10)

\* atm = Atmosphere(); atm.rho_0 = 0
ff_atm == [Atmosphere(FF_PER_M) EXCEPT !.rho_0 = 0]

\* no simulation is running in a test harness
SimIdle ==
    /\ mode = "config" /\ run = 0 /\ meteors = <<>> /\ paused = FALSE
    /\ sim_time = 0 /\ fragment_done = FALSE /\ rng = RNG_SEED
    /\ last_rk4 = NoRk4 /\ calls = <<>> /\ start = NoStart

InitFF ==
    /\ SimIdle
    /\ harness = [kind |-> "freefall", n |-> 0,
                  meteor |-> Meteor(<<0, FF_H0 * FF_PER_M, 0>>, <<0, 0, 0>>,
                                    FF_MASS, FF_RADIUS, MATERIAL_DENSITY)]

\* one iteration of `while t < 10 and meteor.get_altitude() > 0`
FFStep ==
    /\ harness.kind = "freefall"
    /\ harness.n < MaxFFSteps
    /\ get_altitude(harness.meteor) > 0
    /\ harness' = [harness EXCEPT
                     !.meteor = rk4_step(ff_physics, @, ff_atm, DT_MS),
                     !.n = @ + 1]
    /\ UNCHANGED simvars

NextFF == FFStep

SpecFF == InitFF /\ [][NextFF]_vars

---------------------------------------------------------------------------
(* meteor.py, __main__: the trail test (lines 148-168), for each capacity *)

TRAIL_RADIUS == 20000           \* radius=0.02 m in micrometres
Capacities == {0, 1, 2, 3, MAX_TRAIL_LENGTH}
trail_delta == <<100, -50, 0>>  \* np.array([100, -50, 0])

InitTrail ==
    /\ SimIdle
    /\ \E cap \in Capacities :
         harness = [kind |-> "trail", pc |-> "update", cap |-> cap, hist |-> <<>>,
                    meteor |-> Meteor(<<0, 100000, 0>>, <<15000, -10000, 0>>,
                                      DEFAULT_METEOR_MASS, TRAIL_RADIUS,
                                      MATERIAL_DENSITY)]

\* line 165: meteor.update_trail(); hist records the positions passed so far
TrailUpdate ==
    /\ harness.kind = "trail" /\ harness.pc = "update"
    /\ Len(harness.hist) < MaxTrailCalls
    /\ harness' = [harness EXCEPT
                     !.meteor = update_trail(@, harness.cap),
                     !.hist = Append(@, harness.meteor.pos),
                     !.pc = "move"]
    /\ UNCHANGED simvars

\* line 166: meteor.pos += np.array([100, -50, 0])
TrailMove ==
    /\ harness.kind = "trail" /\ harness.pc = "move"
    /\ harness' = [harness EXCEPT !.meteor = pos_iadd(@, trail_delta),
                                   !.pc = "update"]
    /\ UNCHANGED simvars

NextTrail == TrailUpdate \/ TrailMove

SpecTrail == InitTrail /\ [][NextTrail]_vars

---------------------------------------------------------------------------
(* fragment_simple called on its own: parents, child counts and draws *)

MaxChildren == 5                \* largest child count passed
FragMasses == {-3, 0, 7, DEFAULT_METEOR_MASS}
FragWeights == {0, 1, 40000}    \* values of random() for the weights
FragAngles == {0, 60000}        \* values of random() for the angle
FragJitters == {30000, 65536}   \* values of random() for the speed jitter

frag_parent(mass) ==
    Meteor(<<0, 4400000, 0>>, <<627000, -7172000, 0>>, mass,
           radius_from_mass(Max(0, mass), MATERIAL_DENSITY), MATERIAL_DENSITY)

InitFrag ==
    /\ SimIdle
    /\ \E mass \in FragMasses :
         harness = [kind |-> "frag", pc |-> "ready", n |-> 0, drawn |-> 0,
                    before |-> frag_parent(mass), parent |-> frag_parent(mass),
                    frags |-> <<>>, shared |-> <<>>, moved |-> 0]

\* frags = fragment_simple(parent, rng, n)
FragCall ==
    /\ harness.kind = "frag" /\ harness.pc = "ready"
    /\ \E n \in 0..MaxChildren :
       \E weights \in [1..n -> FragWeights] :
       \E ua \in FragAngles, uj \in FragJitters :
         LET draws == weights \o [i \in 1..(2 * n) |-> IF i % 2 = 1 THEN ua ELSE uj]
             res == fragment_simple(harness.parent, draws, n)
         IN harness' = [harness EXCEPT !.pc = "done", !.n = n,
                                       !.drawn = res.drawn,
                                       !.parent = res.parent,
                                       !.frags = res.frags,
                                       !.shared = [i \in 1..Len(res.frags) |->
                                                     child_pos_shared(harness.parent)]]
    /\ UNCHANGED simvars

frag_delta == <<100, -50, 0>>

\* body.pos += delta on the parent (b = 0) or on child b: the array object is
\* changed, and with it the position of every body holding the same object
FragMove ==
    /\ harness.kind = "frag" /\ harness.pc = "done"
    /\ \E b \in 0..Len(harness.frags) :
         LET hit(i) == IF i = 0 THEN b = 0 \/ harness.shared[b]
                       ELSE i = b \/ (harness.shared[i] /\ (b = 0 \/ harness.shared[b]))
         IN harness' = [harness EXCEPT
                          !.pc = "moved", !.moved = b,
                          !.parent = IF hit(0) THEN pos_iadd(@, frag_delta) ELSE @,
                          !.frags = [i \in DOMAIN @ |->
                                       IF hit(i) THEN pos_iadd(@[i], frag_delta)
                                       ELSE @[i]]]
    /\ UNCHANGED simvars

NextFrag == FragCall \/ FragMove

SpecFrag == InitFrag /\ [][NextFrag]_vars

---------------------------------------------------------------------------
(* one ablation pass on its own: m.update_ablation(rho_air=rho, dt=dt_phys) *)

AblMasses == {0, 5, 6, 7, 100, DEFAULT_METEOR_MASS}   \* 1e-6 kg
AblSpeeds == {0, 99, 100, 2000000, 7200000}            \* cm/s, downwards
AblDensities == {0, 1000, RHO_0}                       \* 1e-6 kg/m^3

ablation_body(mass, speed, alive) ==
    [Meteor(<<0, 3000000, 0>>, <<0, -speed, 0>>, mass,
            radius_from_mass(mass, MATERIAL_DENSITY), MATERIAL_DENSITY)
     EXCEPT !.alive = alive]

InitAblate ==
    /\ SimIdle
    /\ \E mass \in AblMasses, speed \in AblSpeeds, rho \in AblDensities,
          alive \in BOOLEAN :
         /\ (alive => mass > BURNUP_MIN_MASS)
         /\ harness = [kind |-> "ablate", pc |-> "ready", rho |-> rho,
                       before |-> ablation_body(mass, speed, alive),
                       after |-> ablation_body(mass, speed, alive)]

\* main.py line 230, with dt_phys = DT * TIME_SCALE
AblatePass ==
    /\ harness.kind = "ablate" /\ harness.pc = "ready"
    /\ harness' = [harness EXCEPT
                     !.pc = "done",
                     !.after = update_ablation(@, harness.rho,
                                               DT_MS * TIME_SCALE, SIM_PER_M)]
    /\ UNCHANGED simvars

NextAblate == AblatePass

SpecAblate == InitAblate /\ [][NextAblate]_vars

---------------------------------------------------------------------------
(* Atmosphere.density over the whole range of its argument, in doubles *)

\* A double result of density is written [zero, e]: 0.0 if zero, and
\* otherwise rho_0 * exp(e / H) with e in metres (e = 0: rho_0 itself).
\* np.exp(x) is 0.0 for x < -745.133 (h >= 6333633 m with H = 8500), and from
\* h = 6324295 m on the product is the least positive double, 5e-324, which
\* is rho_0 * exp(-6329466 / H).
\* (Between 6023095 m and 6324295 m the result is subnormal with more than
\* one unit; its rounding is not modelled.)
UNDERFLOW_ALT == 6333633
LEAST_ALT == 6324295
LEAST_E == 6329466

\* lines 43-47 in doubles, altitude in metres
density_double(self, altitude) ==
    IF altitude < 0 THEN [zero |-> FALSE, e |-> 0]
    ELSE IF altitude >= UNDERFLOW_ALT THEN [zero |-> TRUE, e |-> 0]
    ELSE IF altitude >= LEAST_ALT THEN [zero |-> FALSE, e |-> -LEAST_E]
    ELSE [zero |-> FALSE, e |-> -altitude]

Altitudes == {-8500, -1, 0, 1, 8500, INITIAL_ALTITUDE, 6000000,
              6324295, 6333632, 6333633, 7000000}

InitDensity ==
    /\ SimIdle
    /\ \E h1 \in Altitudes, h2 \in Altitudes :
         harness = [kind |-> "density", pc |-> "ready", h1 |-> h1, h2 |-> h2,
                    d1 |-> [zero |-> TRUE, e |-> 0], d2 |-> [zero |-> TRUE, e |-> 0]]

\* d1 = atmosphere.density(h1); d2 = atmosphere.density(h2)
DensityCall ==
    /\ harness.kind = "density" /\ harness.pc = "ready"
    /\ harness' = [harness EXCEPT
                     !.pc = "done",
                     !.d1 = density_double(atmosphere, harness.h1),
                     !.d2 = density_double(atmosphere, harness.h2)]
    /\ UNCHANGED simvars

NextDensity == DensityCall

SpecDensity == InitDensity /\ [][NextDensity]_vars

---------------------------------------------------------------------------
(* The end-to-end scenario: run_simulation(20.0, 45, 0.02) from 120000 m,  *)
(* frames that are never paused and no key pressed.  The loop of lines     *)
(* 196-240 is `while True` around clock.tick(FPS), which returns after at  *)
(* most a frame time: as long as the process runs, another frame follows.  *)
(* That is the fairness of SpecEntry, stated on what a step does to the    *)
(* clock (EntryClock is NextEntry seen on mode and sim_time only).          *)

ENTRY_SPEED_KM_S == 20
ENTRY_ANGLE_DEG == 45
ENTRY_RADIUS == 20000           \* 0.02 m in micrometres
EntryFrameTimes == {50, 120}    \* clock.tick(FPS), milliseconds: 5 or 10 sub-steps

InitEntry ==
    /\ SimIdle
    /\ harness = [kind |-> "entry"]

\* run_simulation(speed, angle, radius) up to its loop
EntryStart ==
    /\ mode = "config" /\ harness.kind = "entry"
    /\ meteors' = <<main_meteor(ENTRY_SPEED_KM_S, ENTRY_ANGLE_DEG, ENTRY_RADIUS)>>
    /\ calls' = <<NewCalls>>
    /\ start' = [called |-> TRUE, speed_km_s |-> ENTRY_SPEED_KM_S,
                 angle_deg |-> ENTRY_ANGLE_DEG, radius |-> ENTRY_RADIUS, rng |-> rng]
    /\ mode' = "run"
    /\ run' = run + 1
    /\ paused' = FALSE
    /\ sim_time' = 0
    /\ fragment_done' = FALSE
    /\ last_rk4' = NoRk4
    /\ UNCHANGED <<rng, harness>>

\* one iteration of `while True` without events
EntryFrame ==
    /\ mode = "run" /\ harness.kind = "entry"
    /\ sim_time < MaxEntryTicks * DT_MS
    /\ \E frame_ms \in EntryFrameTimes : Frame(frame_ms, 0)

NextEntry == EntryStart \/ EntryFrame

\* what EntryStart and EntryFrame do to mode and sim_time (line 219:
\* sim_time += dt_phys, once per sub-step)
EntryClock ==
    \/ mode = "config" /\ mode' = "run" /\ sim_time' = 0
    \/ /\ mode = "run" /\ sim_time < MaxEntryTicks * DT_MS
       /\ mode' = mode
       /\ \E frame_ms \in EntryFrameTimes :
            sim_time' = sim_time + substeps(frame_ms, dt_phys_fixed(frame_ms))
                                     * dt_phys_fixed(frame_ms)

SpecEntry == InitEntry /\ [][NextEntry]_vars /\ WF_<<mode, sim_time>>(EntryClock)

---------------------------------------------------------------------------
(* The same scenario in a process that has run before: rng is the module   *)
(* level generator of main.py line 40, which run_simulation never seeds     *)
(* again, so a run starts with the generator where the runs before left it. *)

GEN_AFTER_3413_RUNS == 44016    \* rng_advance(RNG_SEED, 3413 * 3 * FRAG_N)
LaterGens == {RNG_SEED, GEN_AFTER_3413_RUNS}

InitLater ==
    /\ mode = "config" /\ run = 0 /\ meteors = <<>> /\ paused = FALSE
    /\ sim_time = 0 /\ fragment_done = FALSE
    /\ rng \in LaterGens
    /\ last_rk4 = NoRk4 /\ calls = <<>> /\ start = NoStart
    /\ harness = [kind |-> "entry"]

SpecLater == InitLater /\ [][NextEntry]_vars

---------------------------------------------------------------------------
(* A run, the R key, and a second run with the same speed, angle and       *)
(* radius.  The harness keeps what the first run was called with and what  *)
(* its fragmentation produced.                                              *)

NoFirst == [called |-> FALSE]

\* the children of the run in progress as fragment_simple created them
children_created ==
    [i \in 1..(Len(calls) - 1) |->
       [mass |-> calls[i + 1].mass0, vel |-> calls[i + 1].vel0]]

InitRestart ==
    /\ SimIdle
    /\ harness = [kind |-> "restart", first |-> NoFirst]

\* lines 292-294 and 177-193: config_screen returns speed, angle and radius
\* (the second time those of the first run) and run_simulation sets up
RestartStart ==
    /\ mode = "config" /\ harness.kind = "restart"
    /\ run < MaxRuns
    /\ \E speed_km_s \in Speeds, angle_deg \in Angles, radius \in Radii :
         /\ harness.first.called =>
               /\ speed_km_s = harness.first.speed_km_s
               /\ angle_deg = harness.first.angle_deg
               /\ radius = harness.first.radius
         /\ meteors' = <<main_meteor(speed_km_s, angle_deg, radius)>>
         /\ calls' = <<NewCalls>>
         /\ start' = [called |-> TRUE, speed_km_s |-> speed_km_s,
                      angle_deg |-> angle_deg, radius |-> radius, rng |-> rng]
    /\ mode' = "run"
    /\ run' = run + 1
    /\ paused' = FALSE
    /\ sim_time' = 0
    /\ fragment_done' = FALSE
    /\ last_rk4' = NoRk4
    /\ UNCHANGED <<rng, harness>>

\* one iteration of `while True` without events
RestartFrame ==
    /\ mode = "run" /\ harness.kind = "restart"
    /\ sim_time < MaxTicks * DT_MS
    /\ \E frame_ms \in FrameTimes : Frame(frame_ms, 0)

\* lines 206-207, K_r in the first run: return to the app loop
RestartKey ==
    /\ mode = "run" /\ harness.kind = "restart" /\ ~harness.first.called
    /\ mode' = "config"
    /\ meteors' = <<>> /\ calls' = <<>>
    /\ paused' = FALSE /\ sim_time' = 0 /\ fragment_done' = FALSE
    /\ last_rk4' = NoRk4 /\ start' = NoStart
    /\ harness' = [harness EXCEPT !.first =
                     [called |-> TRUE, speed_km_s |-> start.speed_km_s,
                      angle_deg |-> start.angle_deg, radius |-> start.radius,
                      frag |-> calls[1].frag, fstep |-> calls[1].fstep,
                      children |-> children_created]]
    /\ UNCHANGED <<run, rng>>

NextRestart == RestartStart \/ RestartFrame \/ RestartKey

SpecRestart == InitRestart /\ [][NextRestart]_vars

---------------------------------------------------------------------------
(* Atmosphere.drag_force called on its own: a body with a velocity, a      *)
(* radius and an altitude drawn from sets.                                  *)

DragVels == {-7200000, -5000, 0, 1, 3600000}     \* cm/s
DragAlts == {-100, 0, 4500000, 8000000, 12000000}     \* cm
DragRadii == {RADIUS_FLOOR, 5000}     \* micrometres

\* the body handed to drag_force
drag_body(v, altitude, radius) ==
    Meteor(<<0, altitude, 0>>, v, DEFAULT_METEOR_MASS, radius, MATERIAL_DENSITY)

\* the larger body keeps its entry speed only where the air is thin
InitDrag ==
    /\ SimIdle
    /\ \E vx \in DragVels, vy \in DragVels, vz \in {0, -5000},
          h \in DragAlts, radius \in DragRadii :
         /\ radius = RADIUS_FLOOR \/ h >= 8000000
         /\ harness = [kind |-> "drag", pc |-> "ready", altitude |-> h,
                       meteor |-> drag_body(<<vx, vy, vz>>, h, radius),
                       F |-> <<0, 0, 0>>]

\* F = atmosphere.drag_force(meteor, altitude)
DragCall ==
    /\ harness.kind = "drag" /\ harness.pc = "ready"
    /\ harness' = [harness EXCEPT
                     !.pc = "done",
                     !.F = drag_force(atmosphere, harness.meteor, harness.altitude)]
    /\ UNCHANGED simvars

NextDrag == DragCall

SpecDrag == InitDrag /\ [][NextDrag]_vars

---------------------------------------------------------------------------
(* The four derivative evaluations of one rk4_step, on a body with a       *)
(* velocity, an altitude and a radius drawn from sets.                      *)

StageVx == {-7200000, 0, 627000, 3600000}     \* cm/s
StageVy == {-7200000, -3600000, -5000}        \* cm/s
StageAlts == {3000000, 4500000, 8000000, 10000000}     \* cm

stage_body(v, altitude, radius) ==
    Meteor(<<0, altitude, 0>>, v, DEFAULT_METEOR_MASS, radius, MATERIAL_DENSITY)

\* lines 140-154: the candidate states handed to derivative and the slopes
\* it returned, in the order k1, k2, k3, k4
stage_trace(self, meteor, atm, dt) ==
    LET state == meteor.pos \o meteor.vel
        d1 == derivative(self, state, meteor, atm)
        c2 == VAdd(state, VScale(d1.k, dt, 2000))
        d2 == derivative(self, c2, d1.meteor, atm)
        c3 == VAdd(state, VScale(d2.k, dt, 2000))
        d3 == derivative(self, c3, d2.meteor, atm)
        c4 == VAdd(state, VScale(d3.k, dt, 1000))
        d4 == derivative(self, c4, d3.meteor, atm)
    IN [cands |-> <<state, c2, c3, c4>>, ks |-> <<d1.k, d2.k, d3.k, d4.k>>]

InitStage ==
    /\ SimIdle
    /\ \E vx \in StageVx, vy \in StageVy, h \in StageAlts, radius \in DragRadii :
         /\ radius = RADIUS_FLOOR \/ h >= 8000000
         /\ harness = [kind |-> "stage", pc |-> "ready",
                       meteor |-> stage_body(<<vx, vy, 0>>, h, radius),
                       cands |-> <<>>, ks |-> <<>>]

\* physics.rk4_step(meteor, atmosphere, DT) up to its weighted sum
StageCall ==
    /\ harness.kind = "stage" /\ harness.pc = "ready"
    /\ \E tr \in {stage_trace(physics, harness.meteor, atmosphere, DT_MS * TIME_SCALE)} :
         harness' = [harness EXCEPT !.pc = "done", !.cands = tr.cands, !.ks = tr.ks]
    /\ UNCHANGED simvars

NextStage == StageCall

SpecStage == InitStage /\ [][NextStage]_vars

---------------------------------------------------------------------------
(* fragment_simple called twice with generators created from one seed *)

Seeds == 0..39                  \* random.Random(seed)
Entropy == {11, 4242}           \* states of a generator created without a seed
SeedMasses == {7, 400, DEFAULT_METEOR_MASS}

\* variant: the generator passed is ignored for a new unseeded one
rng_unseeded(passed) == "unseeded"

\* line 12: rng = rng or random.Random(); a Random object is true
rng_used(passed) == passed

InitSeed ==
    /\ SimIdle
    /\ \E seed \in Seeds, e \in Entropy, mass \in SeedMasses :
         harness = [kind |-> "seed", seed |-> seed,
                    gens |-> [a |-> seed, b |-> seed, unseeded |-> e],
                    parents |-> [a |-> frag_parent(mass), b |-> frag_parent(mass)],
                    frags |-> [a |-> <<>>, b |-> <<>>],
                    done |-> {}]

\* frags = fragment_simple(parent, rng=random.Random(seed), n=5), for the
\* call named c ("a" or "b")
SeedCall(c) ==
    /\ harness.kind = "seed" /\ c \notin harness.done
    /\ LET g == rng_used(c)
           res == fragment_simple(harness.parents[c],
                                  rng_draws(harness.gens[g], 3 * FRAG_N), FRAG_N)
       IN harness' = [harness EXCEPT
                        !.gens[g] = rng_advance(@, res.drawn),
                        !.parents[c] = res.parent,
                        !.frags[c] = res.frags,
                        !.done = @ \cup {c}]
    /\ UNCHANGED simvars

SeedCallA == SeedCall("a")
SeedCallB == SeedCall("b")

NextSeed == SeedCallA \/ SeedCallB

SpecSeed == InitSeed /\ [][NextSeed]_vars

---------------------------------------------------------------------------
(* Properties *)

\* sum of the masses of a sequence of bodies
RECURSIVE MassSum(_)
MassSum(bodies) ==
    IF bodies = <<>> THEN 0 ELSE Head(bodies).mass + MassSum(Tail(bodies))

\* C1: fragmentation conserves mass.  For every call of fragment_simple on a
\* parent with mass > 0, for every child count n and every sequence of random
\* draws, the parent's mass after the call plus the sum of the children's
\* masses is a number equal to the parent's mass before the call, up to the
\* rounding of the n + 2 quotients.
C1_FragmentationConservesMass ==
    (harness.kind = "frag" /\ harness.pc = "done" /\ harness.before.mass > 0) =>
        /\ \A i \in DOMAIN harness.frags : ~harness.frags[i].nan
        /\ Abs(harness.parent.mass + MassSum(harness.frags) - harness.before.mass)
               <= harness.n + 2

\* the same, for the calls with at least one child and a positive weight
C1_ConservedWhenWeighted ==
    (/\ harness.kind = "frag" /\ harness.pc = "done" /\ harness.before.mass > 0
     /\ harness.n > 0
     /\ \A i \in DOMAIN harness.frags : ~harness.frags[i].nan) =>
        Abs(harness.parent.mass + MassSum(harness.frags) - harness.before.mass)
            <= harness.n + 2

\* a call with five children whose weights are all 0: the masses are NaN
C1_ZeroWeights ==
    /\ harness.kind = "frag" /\ harness.pc = "done" /\ harness.n = MaxChildren
    /\ harness.before.mass = DEFAULT_METEOR_MASS
    /\ \A i \in DOMAIN harness.frags : harness.frags[i].nan


\* closed form after n steps of 0.01 s, in units of 1e-5 m and 1e-5 m/s
FFExactAltitude(n) == FF_H0 * FF_PER_M - MulDiv(G_CM * 5 * n, n, 100)
FFExactSpeed(n) == G_CM * 10 * n

\* C7: free fall without drag matches closed-form projectile motion.  After
\* every number n of rk4_step calls (dt = 0.01 s, up to t = 10 s) on the 1 kg
\* body released at rest at 10000 m, the altitude is within 1 m of
\* h0 - g (n dt)^2 / 2, the speed within 1 m/s of g n dt, and the horizontal
\* coordinates (position and velocity, x and z) are still 0.
C7_FreeFallClosedForm ==
    harness.kind = "freefall" =>
        LET m == harness.meteor
            n == harness.n
        IN /\ ~m.nan
           /\ Abs(get_altitude(m) - FFExactAltitude(n)) < FF_PER_M
           /\ Abs(get_speed(m) - FFExactSpeed(n)) < FF_PER_M
           /\ m.pos[1] = 0 /\ m.pos[3] = 0
           /\ m.vel[1] = 0 /\ m.vel[3] = 0

\* the body has fallen for the whole 10 s (1000 steps, about 490 m)
C7_Witness ==
    /\ harness.kind = "freefall"
    /\ harness.n = 1000
    /\ get_altitude(harness.meteor) < (FF_H0 - 490) * FF_PER_M
    /\ get_speed(harness.meteor) > 98 * FF_PER_M

\* the last Min(k, cap) elements of a sequence
LastOf(seq, n) == SubSeq(seq, Len(seq) - n + 1, Len(seq))

\* C9: the trail is a bounded FIFO of past positions.  After k update_trail
\* calls with capacity max_length, len(trail) <= max_length and the trail is
\* the most recent min(k, max_length) recorded positions, oldest first, with
\* the values they had when recorded (copies: later moves do not change
\* them); and each call appends the position and discards at most the single
\* oldest entry.
C9_TrailBoundedFifo ==
    /\ [](harness.kind = "trail" =>
            LET m == harness.meteor
                k == Len(harness.hist)
            IN /\ Len(m.trail) <= harness.cap
               /\ TrailPoints(m) = LastOf(harness.hist, Min(k, harness.cap)))
    /\ [][(harness.kind = "trail" /\ harness.pc = "update") =>
            LET old == TrailPoints(harness.meteor)
                new == TrailPoints(harness'.meteor)
                all == Append(old, harness.meteor.pos)
            IN new = all \/ new = Tail(all)]_vars

\* a full trail of the default capacity has dropped its oldest entries, and
\* the body has moved since the last point was recorded
C9_Witness ==
    /\ harness.kind = "trail" /\ harness.pc = "update"
    /\ harness.cap = MAX_TRAIL_LENGTH
    /\ Len(harness.hist) > MAX_TRAIL_LENGTH + 2
    /\ Len(harness.meteor.trail) = MAX_TRAIL_LENGTH
    /\ harness.meteor.trail[1].p = harness.hist[Len(harness.hist) - MAX_TRAIL_LENGTH + 1]
    /\ harness.meteor.pos # harness.meteor.trail[MAX_TRAIL_LENGTH].p

\* a frame of a running simulation: the step stays inside one run
SameRun == mode = "run" /\ mode' = "run"

\* C2: fragmentation is never triggered twice on the same body.  In every
\* state no body (main or child) has been passed to fragment_simple more than
\* once, and the latch is set exactly when the main body has been; and in
\* every frame that starts with the latch set, the latch stays set, no body
\* is passed to fragment_simple, no child is added and no random number is
\* drawn.
C2_FragmentedAtMostOnce ==
    /\ [](mode = "run" =>
            /\ \A i \in DOMAIN calls : calls[i].frag <= 1
            /\ \A i \in DOMAIN calls : i > 1 => calls[i].frag = 0
            /\ fragment_done <=> calls[1].frag = 1)
    /\ [][(SameRun /\ fragment_done) =>
            /\ fragment_done'
            /\ Len(meteors') = Len(meteors)
            /\ rng' = rng
            /\ \A i \in DOMAIN calls : calls'[i].frag = calls[i].frag]_vars

\* ten sub-steps after the fragmentation the main body is alive and still
\* meets the trigger (altitude and intensity), and has fragmented once
C2_Witness ==
    /\ mode = "run" /\ fragment_done
    /\ Len(meteors) = 1 + FRAG_N
    /\ calls[1].frag = 1
    /\ calls[2].visits >= 10
    /\ meteors[1].alive /\ frag_trigger(meteors[1])

C4_MassNonIncreasing ==
    /\ [](\A i \in DOMAIN meteors :
            /\ meteors[i].mass >= 0
            /\ calls[i].m1 >= 0 /\ calls[i].m1 <= calls[i].m0)
    /\ [][SameRun =>
            \A i \in DOMAIN meteors : meteors'[i].mass <= meteors[i].mass]_vars

\* the main body has lost mass to ablation and to the fragmentation, and a
\* child has burned up completely
C4_Witness ==
    /\ mode = "run" /\ fragment_done
    /\ calls[1].m1 < calls[1].m0
    /\ meteors[1].mass > 0
    /\ meteors[1].mass < parent_keep(DEFAULT_METEOR_MASS)
    /\ \E i \in DOMAIN meteors : i > 1 /\ calls[i].rk4 > 0 /\ meteors[i].mass = 0

\* C5: alive is false exactly when the mass has reached the burn-up
\* threshold or the altitude is <= 0.  In every state of a run, for every
\* body, alive is false if and only if mass <= BURNUP_MIN_MASS or
\* altitude <= 0.
C5_AliveIffAboveThresholdAndGround ==
    mode = "run" =>
        \A i \in DOMAIN meteors :
            (~meteors[i].alive) <=>
                (meteors[i].mass <= BURNUP_MIN_MASS \/ get_altitude(meteors[i]) <= 0)

\* the half of it that holds: a dead body has burned up or is at the ground,
\* and no body is alive with its mass at or below the threshold
C5_DeadForAReason ==
    mode = "run" =>
        \A i \in DOMAIN meteors :
            /\ ~meteors[i].alive =>
                 (meteors[i].mass <= BURNUP_MIN_MASS \/ get_altitude(meteors[i]) <= 0)
            /\ meteors[i].alive => meteors[i].mass > BURNUP_MIN_MASS

\* the main body has been integrated to below the ground and is still alive
C5_AliveBelowGround ==
    /\ mode = "run"
    /\ meteors[1].alive
    /\ get_altitude(meteors[1]) <= 0
    /\ calls[1].rk4 > 0

C6_MainImpactHasMass ==
    mode = "run" =>
        /\ \A i \in DOMAIN meteors :
             status_for(meteors[i], intensity_of(meteors[i])) = "BURNED UP" =>
                 get_altitude(meteors[i]) > 0
        /\ status_for(meteors[1], intensity_of(meteors[1])) = "IMPACT" =>
               meteors[1].mass > 0

\* a fragment whose last sub-step took it below the ground and whose
\* ablation pass of the same sub-step burned it up
C6_BurnedUpBelowGround ==
    /\ mode = "run"
    /\ \E i \in DOMAIN meteors :
         /\ i > 1
         /\ ~meteors[i].alive /\ meteors[i].mass = 0
         /\ get_altitude(meteors[i]) <= 0
         /\ status_for(meteors[i], intensity_of(meteors[i])) = "IMPACT"

\* the attributes of a body other than its position and velocity
static_of(m) ==
    [mass |-> m.mass, radius |-> m.radius, area |-> m.area, alive |-> m.alive,
     density |-> m.density, trail |-> m.trail]

\* C8: rk4_step changes only position and velocity.  For the last rk4_step
\* call made: the body after the four derivative evaluations and before the
\* final unpack is the body as it was before the call, and the body after
\* the call has the same mass, radius, area, alive flag and trail as before.
C8_Rk4ChangesOnlyPosVel ==
    last_rk4.called =>
        /\ last_rk4.mid = last_rk4.pre
        /\ static_of(last_rk4.post) = static_of(last_rk4.pre)

\* a call that moved a body with a full trail and changed its velocity
C8_Witness ==
    /\ last_rk4.called
    /\ last_rk4.post.pos # last_rk4.pre.pos
    /\ last_rk4.post.vel # last_rk4.pre.vel
    /\ Len(last_rk4.pre.trail) = MAX_TRAIL_LENGTH
    /\ last_rk4.pre.mass < DEFAULT_METEOR_MASS

\* C10: the sub-steps per frame are bounded.  In every frame of a run that
\* is not paused, whatever the frame duration, the number n of sub-steps
\* executed (visits of the main body) is between 1 and MAX_SUBSTEPS, every
\* rk4_step call is made with the step DT * TIME_SCALE, and sim_time advances
\* by n * DT * TIME_SCALE.
C10_SubstepsBounded ==
    /\ [](last_rk4.called => last_rk4.dt = DT_MS * TIME_SCALE)
    /\ [][(SameRun /\ ~paused') =>
            LET n == calls'[1].visits - calls[1].visits
            IN /\ n >= 1 /\ n <= MAX_SUBSTEPS
               /\ sim_time' = sim_time + n * DT_MS * TIME_SCALE]_vars

\* a paused frame leaves the simulation as it is
C10_PausedFrameIdle ==
    [][(SameRun /\ paused') =>
         /\ sim_time' = sim_time
         /\ meteors' = meteors]_vars

\* MAX_SUBSTEPS sub-steps have run in an unpaused simulation whose time is
\* MAX_SUBSTEPS fixed steps
C10_Witness ==
    /\ mode = "run" /\ ~paused
    /\ calls[1].visits = MAX_SUBSTEPS
    /\ calls[1].rk4 = MAX_SUBSTEPS
    /\ sim_time = MAX_SUBSTEPS * DT_MS * TIME_SCALE
    /\ last_rk4.called /\ last_rk4.dt = DT_MS * TIME_SCALE

\* the physics state of the run in progress
physics_state ==
    [meteors |-> meteors, calls |-> calls, last_rk4 |-> last_rk4,
     sim_time |-> sim_time, fragment_done |-> fragment_done, rng |-> rng]

\* the physics state in which the run_simulation call s enters its loop
run_start(s) ==
    [meteors |-> <<main_meteor(s.speed_km_s, s.angle_deg, s.radius)>>,
     calls |-> <<NewCalls>>, last_rk4 |-> NoRk4, sim_time |-> 0,
     fragment_done |-> FALSE, rng |-> s.rng]

RECURSIVE after_sub_steps(_, _)
\* the physics state st after n sub-steps of the fixed size, computed by halves
after_sub_steps(st, n) ==
    IF n <= MAX_SUBSTEPS THEN sub_steps(st, n, DT_MS * TIME_SCALE)
    ELSE Only({after_sub_steps(half, n - n \div 2) :
                 half \in {after_sub_steps(st, n \div 2)}})

\* numbers of sub-steps after which a run is compared with the reference
Checkpoints == {1, 2, 3, 12, 25, 60, 110, 150, 172}

\* C11: physics is independent of wall-clock jitter.  Whatever frame
\* durations and pause/resume events led to it, a state of a run in which n
\* sub-steps have been executed (n a checkpoint) is the state that n
\* sub-steps of the fixed size DT * TIME_SCALE produce from the run's
\* configuration and random stream: every body's position, velocity, mass,
\* alive flag and trail, the latch, the generator and the number of
\* sub-steps each child has existed.
C11_JitterIndependent ==
    (mode = "run" /\ calls[1].visits \in Checkpoints) =>
        physics_state = after_sub_steps(run_start(start), calls[1].visits)

\* a paused second run, after its fragmentation and the impact of its main
\* body, at a number of sub-steps that no sequence of equal frames gives
C11_Witness ==
    /\ mode = "run" /\ run = 2 /\ paused
    /\ calls[1].visits = 172
    /\ fragment_done /\ ~meteors[1].alive
    /\ start.rng # RNG_SEED

C13_NoMassNoFragments ==
    (harness.kind = "frag" /\ harness.pc = "done" /\ harness.before.mass <= 0) =>
        /\ harness.frags = <<>>
        /\ harness.drawn = 0
        /\ harness.parent = harness.before

\* a call asking for five children of a parent with negative mass
C13_Witness ==
    /\ harness.kind = "frag" /\ harness.pc = "done"
    /\ harness.before.mass < 0
    /\ harness.n = MaxChildren
    /\ harness.frags = <<>>

C15_NoOpWitness ==
    /\ harness.kind = "ablate" /\ harness.pc = "done"
    /\ harness.rho = RHO_0
    /\ harness.after = harness.before
    /\ \/ ~harness.before.alive /\ get_speed(harness.before) > SIM_PER_M
       \/ harness.before.alive /\ get_speed(harness.before) = SIM_PER_M - 1

\* the double a is less than the double b
DoubleLess(a, b) ==
    \/ a.zero /\ ~b.zero
    \/ ~a.zero /\ ~b.zero /\ a.e < b.e

\* rho_0 * exp(-h / H) as a real number
RefDensity(h) == [zero |-> FALSE, e |-> -h]

\* the double d is the real number r, or its rounding to a subnormal double
\* (then within a factor of e of it)
RoundingOf(d, r) == ~d.zero /\ Abs(d.e - r.e) < H_SCALE

\* C16: Atmosphere.density matches the piecewise reference.  For every
\* altitude h < 0 and for h = 0 the result is exactly rho_0; for every h >= 0
\* it is rho_0 * exp(-h / H) up to rounding, and strictly positive; and for all
\* 0 <= h1 < h2 the result at h2 is less than the result at h1.
C16_DensityPiecewise ==
    (harness.kind = "density" /\ harness.pc = "done") =>
        /\ harness.h1 <= 0 => harness.d1 = RefDensity(0)
        /\ harness.h1 >= 0 => RoundingOf(harness.d1, RefDensity(harness.h1))
        /\ (0 <= harness.h1 /\ harness.h1 < harness.h2) =>
               DoubleLess(harness.d2, harness.d1)

\* what holds: the same below LEAST_ALT, and above it the result is never
\* greater at the greater altitude
C16_DensityBelowUnderflow ==
    (harness.kind = "density" /\ harness.pc = "done") =>
        /\ harness.h1 <= 0 => harness.d1 = RefDensity(0)
        /\ (harness.h1 >= 0 /\ harness.h1 < LEAST_ALT) =>
               ~harness.d1.zero /\ harness.d1 = RefDensity(harness.h1)
        /\ (0 <= harness.h1 /\ harness.h1 < harness.h2 /\ harness.h2 < LEAST_ALT) =>
               DoubleLess(harness.d2, harness.d1)
        /\ (0 <= harness.h1 /\ harness.h1 < harness.h2) =>
               ~DoubleLess(harness.d1, harness.d2)

\* density(7000000.0) is 0.0
C16_Underflow ==
    /\ harness.kind = "density" /\ harness.pc = "done"
    /\ harness.h1 = 7000000
    /\ harness.d1.zero

---------------------------------------------------------------------------
(* Atmosphere.drag_force *)

DragDone == harness.kind = "drag" /\ harness.pc = "done"

\* 0.5 * rho * speed^2 * Cd * area for the body and altitude of the call
DragExpected ==
    drag_magnitude(density(atmosphere, harness.altitude), harness.meteor.area,
                   get_speed(harness.meteor) \div (atmosphere.per_m * 10))

\* a vector cut down to four digits, for products that fit
Coarse(v) ==
    LET k == Max(Abs(v[1]), Max(Abs(v[2]), Abs(v[3]))) \div 10000 + 1
    IN [i \in 1..3 |-> IF v[i] < 0 THEN -((-v[i]) \div k) ELSE v[i] \div k]

\* F and v lie on one line, up to the rounding of the four digits
Collinear(F, v) ==
    LET a == Coarse(F)
        b == Coarse(v)
    IN \A i \in 1..3, j \in 1..3 :
         Abs(a[i] * b[j] - a[j] * b[i]) <= 2 * (Abs(a[i]) + Abs(a[j]) + Abs(b[i]) + Abs(b[j])) + 4

C17_AtRest ==
    /\ DragDone
    /\ harness.meteor.vel = <<0, 0, 0>>
    /\ density(atmosphere, harness.altitude) > 0

---------------------------------------------------------------------------
(* fragment_simple: the parent changed in place, independent children *)

FragSplit ==
    harness.kind = "frag" /\ harness.pc \in {"done", "moved"} /\ harness.before.mass > 0

C18_ChildMoved ==
    /\ FragSplit /\ harness.pc = "moved" /\ harness.moved = 3
    /\ harness.frags[3].pos # harness.parent.pos
    /\ harness.frags[3].pos # harness.frags[2].pos

---------------------------------------------------------------------------
(* area and radius *)

\* C19: in every state of a run, every body's area is pi * radius^2 for the
\* radius it has, and the radius of every living body is positive.
C19_AreaMatchesRadius ==
    \A i \in DOMAIN meteors :
        /\ meteors[i].area = AreaOf(meteors[i].radius)
        /\ meteors[i].alive => meteors[i].radius > 0

\* after the fragmentation: a living parent and a living child, both with a
\* radius recomputed from their mass
C19_Witness ==
    /\ mode = "run" /\ Len(meteors) > 1
    /\ meteors[1].alive /\ meteors[1].radius \notin Radii
    /\ meteors[1].mass < parent_keep(DEFAULT_METEOR_MASS)
    /\ \E i \in 2..Len(meteors) :
         /\ meteors[i].alive
         /\ meteors[i].radius # meteors[1].radius
         /\ meteors[i].radius > RADIUS_FLOOR

---------------------------------------------------------------------------
(* termination of the end-to-end run *)

AllDead ==
    /\ mode = "run" /\ Len(meteors) >= 1
    /\ \A i \in DOMAIN meteors : ~meteors[i].alive

---------------------------------------------------------------------------
(* the descent of the main body *)

---------------------------------------------------------------------------
(* the force of an RK4 stage *)

StageDone == harness.kind = "stage" /\ harness.pc = "done"

\* [velocity, F / mass] for the candidate state cand of the body m, the air
\* density taken at the given altitude, speed and direction of the drag from
\* the candidate velocity, mass and area from m
slope_at(m, cand, altitude) ==
    SubSeq(cand, 4, 6)
      \o acceleration(physics,
                      force_sum(physics, gravity_force(physics, m),
                                drag_force(atmosphere,
                                           [m EXCEPT !.pos = SubSeq(cand, 1, 3),
                                                     !.vel = SubSeq(cand, 4, 6)],
                                           altitude)),
                      m.mass)

\* C22: each of k1, k2, k3, k4 is [velocity, F / mass] with the force taken at
\* the candidate state of its stage: density at the candidate altitude, drag
\* speed and direction from the candidate velocity, mass and area of the body.
C22_StageForceAtCandidate ==
    StageDone =>
        \A i \in 1..4 :
            harness.ks[i] = slope_at(harness.meteor, harness.cands[i], harness.cands[i][2])

\* what the stages do use: the density at the altitude the body has when
\* rk4_step is called, with everything else as C22 says
C22_StageDensityAtStart ==
    StageDone =>
        \A i \in 1..4 :
            harness.ks[i] = slope_at(harness.meteor, harness.cands[i], harness.meteor.pos[2])

\* a step in which the candidate altitude of k4 has a density other than the
\* one at the start, and k4 is not the slope at the candidate altitude
C22_StageDiverges ==
    /\ StageDone
    /\ density(atmosphere, harness.cands[4][2]) # density(atmosphere, harness.meteor.pos[2])
    /\ harness.ks[4] # slope_at(harness.meteor, harness.cands[4], harness.cands[4][2])

---------------------------------------------------------------------------
(* the order of a sub-step *)

\* one body through a sub-step as C23 orders it: the full rk4 step on the
\* body as it is, then one ablation pass with the air density at the altitude
\* after the step, clamped at 0, then the trail point
integrated_then_ablated(m, dt) ==
    IF ~m.alive THEN m
    ELSE IF at_ground(m) THEN [m EXCEPT !.alive = FALSE]
    ELSE LET post == rk4_step(physics, m, atmosphere, dt)
             rho == density(atmosphere, Max(0, get_altitude(post)))
         IN update_trail(update_ablation(post, rho, dt, SIM_PER_M), MAX_TRAIL_LENGTH)

\* a frame of one sub-step
OneSubStep == SameRun /\ sim_time' = sim_time + DT_MS * TIME_SCALE

\* C23: a sub-step takes every live body through integration, then ablation,
\* then the trail; the fragmentation, if any, acts on the main body as these
\* left it and leaves the other bodies as these left them.
C23_IntegrateAblateFragment ==
    [][OneSubStep =>
         LET dt == DT_MS * TIME_SCALE
             b == [i \in DOMAIN meteors |-> integrated_then_ablated(meteors[i], dt)]
         IN IF Len(meteors') = Len(meteors) THEN meteors' = b
            ELSE LET res == fragment_simple(b[1], rng_draws(rng, 3 * FRAG_N), FRAG_N)
                 IN meteors' = <<res.parent>> \o Tail(b) \o res.frags]_vars

\* after the fragmentation: the main body and a child have both been
\* integrated and ablated, and the last ablation of the main body took mass
C23_Witness ==
    /\ mode = "run" /\ calls[1].frag = 1 /\ Len(meteors) = 1 + FRAG_N
    /\ calls[1].m1 < calls[1].m0
    /\ calls[2].rk4 >= 1
    /\ Len(meteors[2].trail) >= 1

---------------------------------------------------------------------------
(* the mass of an integrated body *)

\* C24: every body handed to rk4_step, the main body and every child, has a
\* mass > 0 at that call.
C24_IntegratedMassPositive ==
    mode = "run" => \A i \in DOMAIN calls : calls[i].massless = 0

\* the same for the bodies that were given a positive mass when created
C24_PositiveStaysPositive ==
    mode = "run" =>
        \A i \in DOMAIN calls :
            calls[i].massless > 0 => /\ i > 1
                                     /\ meteors[i].mass = 0
                                     /\ calls[i].rk4 >= 1

\* a child created with mass 0 has been through rk4_step
C24_MasslessChildIntegrated ==
    /\ mode = "run" /\ Len(meteors) = 1 + FRAG_N
    /\ \E i \in 2..Len(meteors) :
         /\ calls[i].massless = 1 /\ calls[i].rk4 = 1
         /\ meteors[i].mass = 0 /\ meteors[i].nan

---------------------------------------------------------------------------
(* fragmentation and the ground *)

---------------------------------------------------------------------------
(* the run after a restart *)

\* the second run of the process with the configuration of the first
Restarted == mode = "run" /\ harness.kind = "restart" /\ harness.first.called

\* the run in progress has just been set up
FreshRun ==
    /\ meteors = <<main_meteor(start.speed_km_s, start.angle_deg, start.radius)>>
    /\ get_altitude(meteors[1]) = INITIAL_ALTITUDE * SIM_PER_M
    /\ sim_time = 0 /\ ~fragment_done /\ ~paused

\* both runs have fragmented
BothFragmented == Restarted /\ harness.first.frag = 1 /\ calls[1].frag = 1

\* C26: a run restarted with the same speed, angle and radius starts from a
\* fresh state and fragments in the same sub-step into children of the same
\* masses and velocities as the run before
C26_RestartReproduces ==
    /\ (Restarted /\ calls[1].visits = 0) => FreshRun
    /\ BothFragmented =>
          /\ calls[1].fstep = harness.first.fstep
          /\ children_created = harness.first.children

\* what holds of the restarted run: the fresh state, the sub-step of the
\* fragmentation, the number of children and where they are created; and
\* the children are those drawn from the generator as the first run left it
C26_FreshStartSameSubStep ==
    /\ (Restarted /\ calls[1].visits = 0) => FreshRun
    /\ BothFragmented =>
          /\ calls[1].fstep = harness.first.fstep
          /\ Len(children_created) = Len(harness.first.children)
          /\ \A i \in 2..Len(calls) : calls[i].born = calls[1].falt
          /\ start.rng = rng_advance(RNG_SEED, 3 * FRAG_N)
          /\ rng = rng_advance(start.rng, 3 * FRAG_N)

\* both runs fragmented in the same sub-step and no child of the second run
\* has the mass and the velocity of its counterpart in the first
C26_ChildrenDiffer ==
    /\ BothFragmented
    /\ calls[1].fstep = harness.first.fstep
    /\ \A i \in 1..FRAG_N :
         /\ children_created[i].mass # harness.first.children[i].mass
         /\ children_created[i].vel # harness.first.children[i].vel

---------------------------------------------------------------------------
(* pause and resume *)

\* C27: pausing freezes the physics.  A frame processed while paused is true
\* changes no body (position, velocity, mass, alive flag, trail), not the
\* number of bodies, not sim_time, not the latch and not the generator, and
\* makes no call on any body; the frame that resumes runs its sub-steps from
\* exactly the state in which the simulation was paused.
C27_PauseFreezesPhysics ==
    [][((SameRun /\ paused') =>
          /\ meteors' = meteors /\ Len(meteors') = Len(meteors)
          /\ sim_time' = sim_time /\ fragment_done' = fragment_done
          /\ rng' = rng /\ calls' = calls /\ last_rk4' = last_rk4)
       /\ ((SameRun /\ paused /\ ~paused') =>
             LET n == calls'[1].visits - calls[1].visits
             IN /\ n >= 1
                /\ physics_state' = sub_steps(physics_state, n, DT_MS * TIME_SCALE))
      ]_vars

\* a paused run after its fragmentation, the main body still in flight
C27_Witness ==
    /\ mode = "run" /\ paused
    /\ fragment_done /\ Len(meteors) = 1 + FRAG_N /\ meteors[1].alive
    /\ calls[1].visits > 0
    /\ sim_time = calls[1].visits * DT_MS * TIME_SCALE

============================================================================
